---- MODULE Spec2Model ----
(***************************************************************************)
(* Req2Spec (src/app.py): the RequirementAnalyzer pipeline                 *)
(*   extract_entities -> identify_modules -> generate_schemas ->           *)
(*   generate_pseudocode, called by analyze_requirement, behind the        *)
(* Streamlit form (text area + "Generate" button).                         *)
(*                                                                         *)
(* Texts are TLA+ strings; a character is a string of length 1 and every   *)
(* text operation (lower, strip, "in", re.findall, join) is computed on    *)
(* the characters.  Python lists are sequences; a dict is the sequence of  *)
(* its <<key, value>> pairs in insertion order.                            *)
(***************************************************************************)
EXTENDS Naturals, Sequences, FiniteSets, TLC

VARIABLES
    hashseed,          \* the interpreter's string-hash seed, drawn at start-up
    requirement_text,  \* contents of the text area (app.py:208)
    result,            \* AnalysisResult of the last analysis of that text, or None
    previous,          \* what the analysis before it returned for the same text,
                       \* less its timestamp, or None
    ui,                \* what the page shows: "form", "success" or "error"
    args,              \* arguments of a direct call of one pipeline step
    ret                \* what that call returned, or None

vars == <<hashseed, requirement_text, result, previous, ui, args, ret>>

\* an optional value: None, or Some(v) with v = Value(Some(v))
None == <<>>

Some(v) == <<v>>

Value(some) == some[1]

(***************************************************************************)
(* Bounds of the model.                                                    *)
(***************************************************************************)
MaxSeed == 1        \* hash seeds 0..MaxSeed
MaxTime == 1        \* clock readings 0..MaxTime
MaxFragments == 2   \* fragments joined into one requirement text
MaxListLen == 2     \* length of the lists passed to a directly called step

(***************************************************************************)
(* Characters and Python's str primitives.                                 *)
(***************************************************************************)
ascii_lowercase ==
    {"a", "b", "c", "d", "e", "f", "g", "h", "i", "j", "k", "l", "m",
     "n", "o", "p", "q", "r", "s", "t", "u", "v", "w", "x", "y", "z"}

UpperToLower ==
    "A" :> "a" @@ "B" :> "b" @@ "C" :> "c" @@ "D" :> "d" @@ "E" :> "e" @@
    "F" :> "f" @@ "G" :> "g" @@ "H" :> "h" @@ "I" :> "i" @@ "J" :> "j" @@
    "K" :> "k" @@ "L" :> "l" @@ "M" :> "m" @@ "N" :> "n" @@ "O" :> "o" @@
    "P" :> "p" @@ "Q" :> "q" @@ "R" :> "r" @@ "S" :> "s" @@ "T" :> "t" @@
    "U" :> "u" @@ "V" :> "v" @@ "W" :> "w" @@ "X" :> "x" @@ "Y" :> "y" @@
    "Z" :> "z"

ascii_uppercase == DOMAIN UpperToLower

digits == {"0", "1", "2", "3", "4", "5", "6", "7", "8", "9"}

whitespace == {" ", "\t", "\n", "\r", "\f"}

\* s[i] of a Python str (1-based here)
CharAt(s, i) == SubSeq(s, i, i)

\* the class [a-zA-Z] of the regular expression
IsAlpha(c) == c \in ascii_lowercase \/ c \in ascii_uppercase

\* the class \w, which decides where \b holds (ASCII letters, digits, "_")
IsWordChar(c) == IsAlpha(c) \/ c \in digits \/ c = "_"

\* the concatenation of strs[i..j], by halves
RECURSIVE Concat(_, _, _)
Concat(strs, i, j) ==
    IF i > j THEN ""
    ELSE IF i = j THEN strs[i]
    ELSE LET m == (i + j) \div 2
         IN  Concat(strs, i, m) \o Concat(strs, m + 1, j)

\* str.lower(): upper-case letters are mapped, everything else is kept
LowerChar(c) == IF c \in ascii_uppercase THEN UpperToLower[c] ELSE c

lower(s) == Concat([i \in 1..Len(s) |-> LowerChar(CharAt(s, i))], 1, Len(s))

\* Python's "pat in s" on two str
Contains(s, pat) ==
    \E i \in 1..(Len(s) - Len(pat) + 1) : SubSeq(s, i, i + Len(pat) - 1) = pat

\* str.strip(): drop leading and trailing whitespace
strip(s) ==
    LET n == Len(s)
        IsSpace(i) == CharAt(s, i) \in whitespace
    IN  IF \A i \in 1..n : IsSpace(i) THEN ""
        ELSE LET first == CHOOSE i \in 1..n :
                     ~IsSpace(i) /\ \A j \in 1..(i - 1) : IsSpace(j)
                 last  == CHOOSE i \in 1..n :
                     ~IsSpace(i) /\ \A j \in (i + 1)..n : IsSpace(j)
             IN  SubSeq(s, first, last)

\* "sep".join(lines)
join(sep, lines) ==
    Concat([i \in 1..Len(lines) |-> IF i = 1 THEN lines[i] ELSE sep \o lines[i]],
           1, Len(lines))

\* re.findall(r'\b[a-zA-Z]+\b', s): scanning from position i, a match starts
\* at a letter that follows a non-word character (or the start), takes the
\* letters greedily and needs a non-word character (or the end) after them.  A
\* run of letters that a digit or "_" follows has no match in it: a shorter
\* run ends between two letters, where \b fails, and no later start in the
\* run follows a non-word character.
RECURSIVE AlphaRunEnd(_, _)
AlphaRunEnd(s, i) ==
    IF i + 1 <= Len(s) /\ IsAlpha(CharAt(s, i + 1)) THEN AlphaRunEnd(s, i + 1)
    ELSE i

RECURSIVE WordRunEnd(_, _)
WordRunEnd(s, i) ==
    IF i + 1 <= Len(s) /\ IsWordChar(CharAt(s, i + 1)) THEN WordRunEnd(s, i + 1)
    ELSE i

\* the first position from i on that holds a word character, or Len(s) + 1
NextWordChar(s, i) ==
    IF \E k \in i..Len(s) : IsWordChar(CharAt(s, k))
    THEN CHOOSE k \in i..Len(s) :
             /\ IsWordChar(CharAt(s, k))
             /\ \A l \in i..(k - 1) : ~IsWordChar(CharAt(s, l))
    ELSE Len(s) + 1

RECURSIVE FindallFrom(_, _)
FindallFrom(s, from) ==
    LET i == NextWordChar(s, from)
    IN  IF i > Len(s) THEN <<>>
        ELSE IF ~IsAlpha(CharAt(s, i)) THEN FindallFrom(s, WordRunEnd(s, i) + 1)
        ELSE LET j == AlphaRunEnd(s, i)
             IN  IF j = Len(s) \/ ~IsWordChar(CharAt(s, j + 1))
                 THEN <<SubSeq(s, i, j)>> \o FindallFrom(s, j + 1)
                 ELSE FindallFrom(s, WordRunEnd(s, j) + 1)

findall_words(s) == FindallFrom(s, 1)

(***************************************************************************)
(* Python containers.                                                      *)
(***************************************************************************)
\* "x in xs" on a list
InList(x, xs) == \E i \in DOMAIN xs : xs[i] = x

\* xs[:n]
Take(xs, n) == SubSeq(xs, 1, IF Len(xs) < n THEN Len(xs) ELSE n)

\* the elements of xs, each once, in first-seen order
RECURSIVE Dedup(_, _, _)
Dedup(xs, i, acc) ==
    IF i > Len(xs) THEN acc
    ELSE Dedup(xs, i + 1, IF InList(xs[i], acc) THEN acc ELSE Append(acc, xs[i]))

Ord ==
    "a" :> 97 @@ "b" :> 98 @@ "c" :> 99 @@ "d" :> 100 @@ "e" :> 101 @@
    "f" :> 102 @@ "g" :> 103 @@ "h" :> 104 @@ "i" :> 105 @@ "j" :> 106 @@
    "k" :> 107 @@ "l" :> 108 @@ "m" :> 109 @@ "n" :> 110 @@ "o" :> 111 @@
    "p" :> 112 @@ "q" :> 113 @@ "r" :> 114 @@ "s" :> 115 @@ "t" :> 116 @@
    "u" :> 117 @@ "v" :> 118 @@ "w" :> 119 @@ "x" :> 120 @@ "y" :> 121 @@
    "z" :> 122 @@ "_" :> 95

\* hash(str): CPython salts the hash of a str with a seed drawn when the
\* interpreter starts, so the value is fixed within a process and differs
\* between processes.  The salted hash is modelled by a polynomial hash keyed
\* by hashseed.
RECURSIVE HashFrom(_, _, _)
HashFrom(s, i, h) ==
    IF i > Len(s) THEN h
    ELSE HashFrom(s, i + 1, (h * (31 + 2 * hashseed) + Ord[CharAt(s, i)]) % 1009)

\* StrHash with a seed that changes once a result has been produced
StrHash_reseeded(s) == HashFrom(s, 1, 7 + hashseed + (IF result = None THEN 0 ELSE 1))

StrHash(s) == HashFrom(s, 1, 7 + hashseed)

\* list(set(xs)): the distinct elements of xs in the iteration order of the
\* set, which is the order of their slots in the hash table: by hash, and
\* among equal hashes the one inserted first.
list_set(xs) ==
    LET d == Dedup(xs, 1, <<>>)
        slots == SortSeq([i \in 1..Len(d) |-> <<StrHash(d[i]), i>>],
                         LAMBDA a, b : a[1] < b[1] \/ (a[1] = b[1] /\ a[2] < b[2]))
    IN  [k \in 1..Len(d) |-> d[slots[k][2]]]

\* dict operations; a dict is the sequence of its <<key, value>> pairs
DictKeys(d) == {d[i][1] : i \in DOMAIN d}

DictGet(d, k) == d[CHOOSE i \in DOMAIN d : d[i][1] = k][2]

\* d[k] = v: a present key keeps its place and takes the new value
DictSet(d, k, v) ==
    IF k \in DictKeys(d)
    THEN [i \in DOMAIN d |-> IF d[i][1] = k THEN <<k, v>> ELSE d[i]]
    ELSE Append(d, <<k, v>>)

(***************************************************************************)
(* RequirementAnalyzer.__init__: the lookup tables.                        *)
(***************************************************************************)
common_modules == <<
    <<"user management", <<"authentication", "authorization", "user_profile", "session_management">> >>,
    <<"data processing", <<"data_validation", "data_transformation", "data_storage", "data_retrieval">> >>,
    <<"api", <<"rest_api", "request_handler", "response_formatter", "error_handler">> >>,
    <<"database", <<"database_connection", "crud_operations", "data_models", "migrations">> >>,
    <<"frontend", <<"user_interface", "components", "routing", "state_management">> >>,
    <<"notification", <<"email_service", "push_notifications", "notification_queue", "templates">> >>,
    <<"payment", <<"payment_gateway", "transaction_processing", "billing", "invoice_generation">> >>,
    <<"analytics", <<"data_collection", "reporting", "dashboard", "metrics_calculation">> >> >>

schema_templates == <<
    <<"user", << <<"id", "UUID">>, <<"username", "String">>, <<"email", "String">>,
                 <<"password_hash", "String">>, <<"created_at", "DateTime">>,
                 <<"updated_at", "DateTime">>, <<"is_active", "Boolean">> >> >>,
    <<"product", << <<"id", "UUID">>, <<"name", "String">>, <<"description", "Text">>,
                    <<"price", "Decimal">>, <<"category_id", "UUID">>,
                    <<"created_at", "DateTime">>, <<"is_available", "Boolean">> >> >>,
    <<"order", << <<"id", "UUID">>, <<"user_id", "UUID">>, <<"total_amount", "Decimal">>,
                  <<"status", "Enum">>, <<"created_at", "DateTime">>,
                  <<"updated_at", "DateTime">> >> >> >>

(***************************************************************************)
(* extract_entities                                                        *)
(***************************************************************************)
common_entities ==
    <<"user", "product", "order", "payment", "customer", "admin", "report", "notification">>

stop_words ==
    <<"the", "and", "or", "but", "in", "on", "at", "to", "for", "of", "with", "by",
      "from", "up", "about", "into", "through", "during", "before", "after",
      "above", "below", "between", "among", "under", "over">>

MinWordLen == 3     \* len(word) > 3
MaxEntities == 8    \* [:8]

\* known_entities with the operands of "in" exchanged
known_entities_swapped(req_lower) ==
    SelectSeq(common_entities, LAMBDA entity : Contains(entity, req_lower))

\* the first loop: the known entities found in the lower-cased text, in the
\* order of common_entities
known_entities(req_lower) ==
    SelectSeq(common_entities, LAMBDA entity : Contains(req_lower, entity))

\* is_custom_entity with len(word) >= 3 for len(word) > 3
is_custom_entity_from3(word, entities) ==
    /\ ~InList(lower(word), stop_words)
    /\ Len(word) >= MinWordLen
    /\ ~InList(lower(word), entities)

\* the test a word passes to be appended in the second loop
is_custom_entity(word, entities) ==
    /\ ~InList(lower(word), stop_words)
    /\ Len(word) > MinWordLen
    /\ ~InList(lower(word), entities)

\* the second loop
RECURSIVE custom_entities(_, _, _)
custom_entities(words, i, entities) ==
    IF i > Len(words) THEN entities
    ELSE custom_entities(words, i + 1,
             IF is_custom_entity(words[i], entities)
             THEN Append(entities, lower(words[i]))
             ELSE entities)

\* the list the function has built before its return statement
entity_candidates(requirement) ==
    custom_entities(findall_words(requirement), 1, known_entities(lower(requirement)))

\* limit_entities without the [:8]
limit_entities_uncut(entities) == list_set(entities)

limit_entities(entities) == Take(list_set(entities), MaxEntities)

extract_entities(requirement) == limit_entities(entity_candidates(requirement))

(***************************************************************************)
(* identify_modules                                                        *)
(***************************************************************************)
\* the if/elif chain: the category each branch's generator is filtered on,
\* and the keywords it tests
keyword_branches == <<
    <<"user management", <<"login", "register", "auth", "sign">> >>,
    <<"data processing", <<"store", "save", "retrieve", "process">> >>,
    <<"api", <<"api", "endpoint", "service">> >>,
    <<"database", <<"database", "data", "store">> >>,
    <<"frontend", <<"interface", "ui", "frontend", "web">> >>,
    <<"notification", <<"notify", "alert", "email", "message">> >>,
    <<"payment", <<"payment", "pay", "billing", "charge">> >>,
    <<"analytics", <<"report", "analytics", "dashboard", "metrics">> >> >>

MaxModules == 6     \* [:6]

\* branch_fires without the filter on the category
branch_fires_unfiltered(branch, module_category, req_lower) ==
    \E k \in DOMAIN branch[2] : Contains(req_lower, branch[2][k])

\* any(keyword in req_lower for keyword in [...] if module_category == '...')
branch_fires(branch, module_category, req_lower) ==
    /\ module_category = branch[1]
    /\ \E k \in DOMAIN branch[2] : Contains(req_lower, branch[2][k])

\* category_matches without the keyword lists
category_matches_by_name(module_category, req_lower) ==
    Contains(req_lower, module_category)

\* the condition under which some branch of the chain runs for a category:
\* the first tests the category name or the first keyword list, the others
\* their keyword list, and every branch extends the list in the same way
category_matches(module_category, req_lower) ==
    \/ Contains(req_lower, module_category)
    \/ \E b \in DOMAIN keyword_branches :
           branch_fires(keyword_branches[b], module_category, req_lower)

\* the loop over common_modules.items(), in dict order
RECURSIVE identified_modules(_, _, _)
identified_modules(req_lower, c, acc) ==
    IF c > Len(common_modules) THEN acc
    ELSE identified_modules(req_lower, c + 1,
             IF category_matches(common_modules[c][1], req_lower)
             THEN acc \o common_modules[c][2]
             ELSE acc)

module_candidates(requirement) == identified_modules(lower(requirement), 1, <<>>)

\* limit_modules without the [:6]
limit_modules_uncut(modules) == list_set(modules)

limit_modules(modules) == Take(list_set(modules), MaxModules)

identify_modules(requirement) == limit_modules(module_candidates(requirement))

(***************************************************************************)
(* generate_schemas                                                        *)
(***************************************************************************)
basic_schema == <<
    <<"id", "UUID">>, <<"name", "String">>, <<"description", "Text">>,
    <<"created_at", "DateTime">>, <<"updated_at", "DateTime">>,
    <<"is_active", "Boolean">> >>

\* schema_for with the template of "user" for every predefined entity
schema_for_user_template(entity) ==
    IF entity \in DictKeys(schema_templates)
    THEN DictGet(schema_templates, "user")
    ELSE basic_schema

schema_for(entity) ==
    IF entity \in DictKeys(schema_templates)
    THEN DictGet(schema_templates, entity)
    ELSE basic_schema

RECURSIVE schemas_from(_, _, _)
schemas_from(entities, i, schemas) ==
    IF i > Len(entities) THEN schemas
    ELSE schemas_from(entities, i + 1,
                      DictSet(schemas, entities[i], schema_for(entities[i])))

\* generate_schemas without the else branch
generate_schemas_predefined(entities) ==
    schemas_from(SelectSeq(entities, LAMBDA entity : entity \in DictKeys(schema_templates)),
                 1, <<>>)

generate_schemas(entities) == schemas_from(entities, 1, <<>>)

(***************************************************************************)
(* generate_pseudocode                                                     *)
(***************************************************************************)
TopEntities == 3    \* entities[:3]

\* any_module_has testing the requirement text in place of the module names
any_module_has_in_text(part, requirement, modules) ==
    Contains(lower(requirement), part)

\* any(part in module for module in modules)
any_module_has(part, requirement, modules) ==
    \E m \in DOMAIN modules : Contains(modules[m], part)

RECURSIVE entity_lines(_, _)
entity_lines(entities, i) ==
    IF i > Len(entities) THEN <<>>
    ELSE << "    PROCESS " \o entities[i] \o "_operations",
            "    STORE " \o entities[i] \o "_data IN database" >>
         \o entity_lines(entities, i + 1)

pseudocode_lines(requirement, modules, entities) ==
    <<"MAIN FUNCTION:", "  BEGIN">>
    \o (IF any_module_has("auth", requirement, modules)
        THEN <<"    // Authentication", "    IF user_not_authenticated THEN",
               "      REDIRECT to login_page", "    END IF", "">>
        ELSE <<>>)
    \o (IF any_module_has("data", requirement, modules)
        THEN <<"    // Data Processing", "    INPUT user_data",
               "    VALIDATE user_data", "    IF validation_fails THEN",
               "      RETURN error_message", "    END IF", "">>
        ELSE <<>>)
    \o <<"    // Main Business Logic">>
    \o entity_lines(Take(entities, TopEntities), 1)
    \o <<"">>
    \o (IF any_module_has("notification", requirement, modules)
        THEN <<"    // Notifications", "    SEND notification_to_user",
               "    LOG notification_sent", "">>
        ELSE <<>>)
    \o (IF any_module_has("api", requirement, modules)
        THEN <<"    // API Response", "    RETURN success_response WITH data">>
        ELSE <<>>)
    \o <<"  END">>

generate_pseudocode(requirement, modules, entities) ==
    join("\n", pseudocode_lines(requirement, modules, entities))

(***************************************************************************)
(* analyze_requirement; now is the reading of the clock, kept as the       *)
(* timestamp                                                               *)
(***************************************************************************)
analyze_requirement(requirement, now) ==
    LET entities == extract_entities(requirement)
        modules == identify_modules(requirement)
    IN  [entities |-> entities,
         modules |-> modules,
         schemas |-> generate_schemas(entities),
         pseudocode |-> generate_pseudocode(requirement, modules, entities),
         timestamp |-> now]

(***************************************************************************)
(* Inputs.                                                                 *)
(***************************************************************************)
\* the sidebar's example requirements
examples == <<
    "Create a user registration system with email verification",
    "Build an e-commerce platform with product catalog and payment processing",
    "Develop a task management system with notifications and reporting",
    "Create a blog platform with user authentication and comment system" >>

\* pieces of requirement text a user may type
Fragments == <<
    "payment notification",
    "new REST api_v2 rest",
    "Admin dashboard for customer order reports store product data" >>

\* the texts made of n different fragments, in any order, joined by spaces
Composed(n) ==
    {join(" ", [i \in 1..n |-> Fragments[q[i]]]) :
         q \in {p \in [1..n -> DOMAIN Fragments] :
                    \A i, j \in 1..n : i # j => p[i] # p[j]}}

BlankTexts == {"", " ", " \n\t "}

Texts ==
    {examples[i] : i \in DOMAIN examples} \cup BlankTexts \cup {"User Management"}
        \cup UNION {Composed(n) : n \in 0..MaxFragments}

ClockReadings == 0..MaxTime

(***************************************************************************)
(* The application: the form and the analyzer behind it.                   *)
(***************************************************************************)
Init ==
    /\ hashseed \in 0..MaxSeed
    /\ requirement_text = ""
    /\ result = None
    /\ previous = None
    /\ ui = "form"
    /\ args = None
    /\ ret = None

\* the user picks an example or types a text: the script reruns and shows
\* the form with no result
EnterText(t) ==
    /\ requirement_text' = t
    /\ result' = None
    /\ previous' = None
    /\ ui' = "form"
    /\ UNCHANGED <<hashseed, args, ret>>

\* the four fields of an AnalysisResult that the text decides
Outcome(r) ==
    [entities |-> r.entities, modules |-> r.modules,
     schemas |-> r.schemas, pseudocode |-> r.pseudocode]

\* analyzer.analyze_requirement(requirement_text) returns
Analyzed ==
    /\ LET r == analyze_requirement(requirement_text, 0)
       IN  \E now \in ClockReadings :
               result' = Some([r EXCEPT !.timestamp = now])
    /\ previous' = IF result = None THEN None ELSE Some(Outcome(Value(result)))

\* the button's handler, on a text that is not blank
GenerateAnalyzed ==
    /\ strip(requirement_text) # ""
    /\ Analyzed
    /\ ui' = "success"
    /\ UNCHANGED <<hashseed, requirement_text, args, ret>>

\* the button's handler, on a blank text
GenerateRejected ==
    /\ strip(requirement_text) = ""
    /\ ui' = "error"
    /\ UNCHANGED <<hashseed, requirement_text, result, previous, args, ret>>

\* analyze_requirement called on the text directly, not through the form
AnalyzeDirectly ==
    /\ Analyzed
    /\ UNCHANGED <<hashseed, requirement_text, ui, args, ret>>

Next ==
    \/ \E t \in Texts : EnterText(t)
    \/ GenerateAnalyzed
    \/ GenerateRejected
    \/ AnalyzeDirectly

Spec == Init /\ [][Next]_vars

(***************************************************************************)
(* The four steps called on their own, each on arguments drawn at the      *)
(* start.                                                                  *)
(***************************************************************************)
\* the lists of length at most n over the set S
Lists(S, n) == UNION {[1..k -> S] : k \in 0..n}

EntityNames == {"user", "product", "order", "payment", "task", "users"}

ModuleNames ==
    {"authentication", "data_models", "push_notifications", "rest_api", "billing"}

PseudocodeTexts == {"", "notification api auth data"}

Call(op, requirement, modules, entities) ==
    [op |-> op, requirement |-> requirement, modules |-> modules, entities |-> entities]

StepCalls ==
    {Call("extract_entities", t, <<>>, <<>>) : t \in Texts}
        \cup {Call("identify_modules", t, <<>>, <<>>) : t \in Texts}
        \cup {Call("generate_schemas", "", <<>>, es) : es \in Lists(EntityNames, MaxListLen)}
        \cup {Call("generate_pseudocode", t, ms, es) :
                  t \in PseudocodeTexts,
                  ms \in Lists(ModuleNames, MaxListLen),
                  es \in Lists({"user", "task"}, TopEntities + 1)}

InitSteps ==
    /\ hashseed \in 0..MaxSeed
    /\ requirement_text = ""
    /\ result = None
    /\ previous = None
    /\ ui = "form"
    /\ args \in StepCalls
    /\ ret = None

Returns(op, value) ==
    /\ args.op = op
    /\ ret = None
    /\ ret' = Some(value)
    /\ UNCHANGED <<hashseed, requirement_text, result, previous, ui, args>>

CallExtractEntities == Returns("extract_entities", extract_entities(args.requirement))

CallIdentifyModules == Returns("identify_modules", identify_modules(args.requirement))

CallGenerateSchemas == Returns("generate_schemas", generate_schemas(args.entities))

CallGeneratePseudocode ==
    Returns("generate_pseudocode",
            generate_pseudocode(args.requirement, args.modules, args.entities))

NextSteps ==
    \/ CallExtractEntities
    \/ CallIdentifyModules
    \/ CallGenerateSchemas
    \/ CallGeneratePseudocode

SpecSteps == InitSteps /\ [][NextSteps]_vars

(***************************************************************************)
(* Vocabulary of the properties.                                           *)
(***************************************************************************)
Range(xs) == {xs[i] : i \in DOMAIN xs}

NoDuplicates(xs) == \A i, j \in DOMAIN xs : xs[i] = xs[j] => i = j

\* the lines of a text: the inverse of join("\n", lines)
Lines(text) ==
    LET n == Len(text)
        breaks == <<0>> \o SelectSeq([i \in 1..n |-> i], LAMBDA i : CharAt(text, i) = "\n")
                      \o <<n + 1>>
    IN  [k \in 1..(Len(breaks) - 1) |-> SubSeq(text, breaks[k] + 1, breaks[k + 1] - 1)]

\* the places where the lines of block stand, in order, in lines
BlockPlaces(lines, block) ==
    {i \in 1..(Len(lines) - Len(block) + 1) : SubSeq(lines, i, i + Len(block) - 1) = block}

HasBlock(lines, block) == BlockPlaces(lines, block) # {}

HeaderLines == <<"MAIN FUNCTION:", "  BEGIN">>

AuthenticationBlock ==
    <<"    // Authentication", "    IF user_not_authenticated THEN",
      "      REDIRECT to login_page", "    END IF", "">>

DataBlock ==
    <<"    // Data Processing", "    INPUT user_data", "    VALIDATE user_data",
      "    IF validation_fails THEN", "      RETURN error_message", "    END IF", "">>

NotificationBlock ==
    <<"    // Notifications", "    SEND notification_to_user",
      "    LOG notification_sent", "">>

ApiBlock == <<"    // API Response", "    RETURN success_response WITH data">>

\* some name of the list has part as a substring
SomeNameHas(names, part) == \E name \in Range(names) : Contains(name, part)

AnalyzedResult == Value(result)

(***************************************************************************)
(* C1: every result of analyze_requirement has at most 8 entities and at   *)
(* most 6 modules, and neither list holds an element twice.                *)
(***************************************************************************)
C1_CapsAndNoDuplicates ==
    result # None =>
        /\ Len(AnalyzedResult.entities) <= 8
        /\ Len(AnalyzedResult.modules) <= 6
        /\ NoDuplicates(AnalyzedResult.entities)
        /\ NoDuplicates(AnalyzedResult.modules)

\* a result cut from more than 8 candidate entities and more than 6 modules
C1_Witness ==
    /\ result # None
    /\ Len(AnalyzedResult.entities) = 8
    /\ Len(AnalyzedResult.modules) = 6
    /\ Cardinality(Range(entity_candidates(requirement_text))) > 8
    /\ Cardinality(Range(module_candidates(requirement_text))) > 6

(***************************************************************************)
(* C2: the keys of the schemas of a result are exactly its entities.       *)
(***************************************************************************)
C2_SchemaKeysAreEntities ==
    result # None =>
        DictKeys(AnalyzedResult.schemas) = Range(AnalyzedResult.entities)

\* a result with a predefined entity and a custom one
C2_Witness ==
    /\ result # None
    /\ "user" \in Range(AnalyzedResult.entities)
    /\ "blog" \in Range(AnalyzedResult.entities)
    /\ Len(AnalyzedResult.schemas) = Len(AnalyzedResult.entities)

(***************************************************************************)
(* C3: generate_schemas gives "user", "product" and "order" their          *)
(* predefined field/type mapping and every other entity the generic        *)
(* 6-field mapping, and every type tag is one of the seven known tags.     *)
(***************************************************************************)
GenericSchema ==
    {<<"id", "UUID">>, <<"name", "String">>, <<"description", "Text">>,
     <<"created_at", "DateTime">>, <<"updated_at", "DateTime">>,
     <<"is_active", "Boolean">>}

TypeTags == {"UUID", "String", "Text", "Decimal", "DateTime", "Boolean", "Enum"}

\* a schema is the mapping given by the set of pairs fields
IsMapping(schema, fields) ==
    /\ Range(schema) = fields
    /\ Len(schema) = Cardinality(fields)

C3_SchemaOfEntity ==
    (args.op = "generate_schemas" /\ ret # None) =>
        \A entity \in Range(args.entities) :
            /\ entity \in DictKeys(Value(ret))
            /\ LET schema == DictGet(Value(ret), entity)
               IN  /\ entity \in {"user", "product", "order"} =>
                          IsMapping(schema, Range(DictGet(schema_templates, entity)))
                   /\ entity \notin {"user", "product", "order"} =>
                          IsMapping(schema, GenericSchema)
                   /\ \A f \in DOMAIN schema : schema[f][2] \in TypeTags

\* a call that was passed a predefined entity and another one
C3_Witness ==
    /\ args.op = "generate_schemas"
    /\ ret # None
    /\ args.entities = <<"order", "task">>
    /\ Len(Value(ret)) = 2

PaymentModules ==
    {"payment_gateway", "transaction_processing", "billing", "invoice_generation"}

NotificationModules ==
    {"email_service", "push_notifications", "notification_queue", "templates"}

NamesPaymentAndNotification ==
    /\ result # None
    /\ Contains(lower(requirement_text), "payment")
    /\ Contains(lower(requirement_text), "notification")

NotificationBeforeApi(lines) ==
    \A n \in BlockPlaces(lines, NotificationBlock), a \in BlockPlaces(lines, ApiBlock) :
        n < a

\* C5 as claimed: the result holds the four payment modules and the four
\* notification modules, the pseudocode holds the notification block and,
\* when the text contains "api", the API-response block after it.
C5_AllEightModules ==
    NamesPaymentAndNotification =>
        LET lines == Lines(AnalyzedResult.pseudocode)
        IN  /\ PaymentModules \cup NotificationModules \subseteq Range(AnalyzedResult.modules)
            /\ HasBlock(lines, NotificationBlock)
            /\ Contains(lower(requirement_text), "api") =>
                   HasBlock(lines, ApiBlock) /\ NotificationBeforeApi(lines)

\* C5 as amended: the eight modules are all candidates, the result holds 6
\* of the candidates, the pseudocode holds the notification block exactly
\* when a returned module name contains "notification" and the API-response
\* block exactly when one contains "api", and the notification block stands
\* before the API-response block when both are there.
C5_SixOfTheCandidates ==
    NamesPaymentAndNotification =>
        LET lines == Lines(AnalyzedResult.pseudocode)
            candidates == Range(module_candidates(requirement_text))
        IN  /\ PaymentModules \cup NotificationModules \subseteq candidates
            /\ Range(AnalyzedResult.modules) \subseteq candidates
            /\ Len(AnalyzedResult.modules) = 6
            /\ HasBlock(lines, NotificationBlock)
                   <=> SomeNameHas(AnalyzedResult.modules, "notification")
            /\ HasBlock(lines, ApiBlock) <=> SomeNameHas(AnalyzedResult.modules, "api")
            /\ NotificationBeforeApi(lines)

\* an analysis of such a text that also contains "api", with both blocks
C5_Witness ==
    /\ NamesPaymentAndNotification
    /\ Contains(lower(requirement_text), "api")
    /\ HasBlock(Lines(AnalyzedResult.pseudocode), NotificationBlock)
    /\ HasBlock(Lines(AnalyzedResult.pseudocode), ApiBlock)

(***************************************************************************)
(* C6: for the first example requirement.                                  *)
(***************************************************************************)
UserManagementModules ==
    {"authentication", "authorization", "user_profile", "session_management"}

FirstExampleAnalyzed ==
    /\ requirement_text = "Create a user registration system with email verification"
    /\ result # None

\* C6 as claimed: the entities include "user" and the modules include the
\* four user-management modules.
C6_UserManagementModules ==
    FirstExampleAnalyzed =>
        /\ "user" \in Range(AnalyzedResult.entities)
        /\ UserManagementModules \subseteq Range(AnalyzedResult.modules)

\* C6 as amended: the entities include "user"; "register" is no substring
\* of the lower-cased text, and the modules are the four notification
\* modules, which the keyword "email" brings in.
C6_NotificationModules ==
    FirstExampleAnalyzed =>
        /\ "user" \in Range(AnalyzedResult.entities)
        /\ ~Contains(lower(requirement_text), "register")
        /\ Contains(lower(requirement_text), "email")
        /\ Range(AnalyzedResult.modules) = NotificationModules

\* the first example, analysed through the form
C6_Witness ==
    /\ FirstExampleAnalyzed
    /\ ui = "success"

(***************************************************************************)
(* C7: what a direct call of analyze_requirement returns on the empty text *)
(* or on a text of whitespace alone has no entities, no modules, no        *)
(* schemas, and a pseudocode of the skeleton lines alone; the witness is   *)
(* such a call that has returned.                                          *)
(***************************************************************************)
C7_BlankText ==
    (strip(requirement_text) = "" /\ result # None) =>
        /\ AnalyzedResult.entities = <<>>
        /\ AnalyzedResult.modules = <<>>
        /\ AnalyzedResult.schemas = <<>>
        /\ Lines(AnalyzedResult.pseudocode) =
               <<"MAIN FUNCTION:", "  BEGIN", "    // Main Business Logic", "", "  END">>

\* a direct call on a text of whitespace alone has returned
C7_Witness ==
    /\ requirement_text = " \n\t "
    /\ result # None

(***************************************************************************)
(* C8: identify_modules matches a category exactly when its name or one of *)
(* its own keywords is a substring of the lower-cased text; every returned *)
(* module is of a matched category, and the result is the union of the     *)
(* matched categories' modules when these are at most 6.                   *)
(***************************************************************************)
OwnKeywords(category) ==
    UNION {Range(keyword_branches[b][2]) :
               b \in {b \in DOMAIN keyword_branches : keyword_branches[b][1] = category}}

Triggered(category, text) ==
    \/ Contains(text, category)
    \/ \E keyword \in OwnKeywords(category) : Contains(text, keyword)

MatchedModules(text) ==
    UNION {Range(common_modules[c][2]) :
               c \in {c \in DOMAIN common_modules : Triggered(common_modules[c][1], text)}}

C8_MatchedCategories ==
    (args.op = "identify_modules" /\ ret # None) =>
        LET matched == MatchedModules(lower(args.requirement))
        IN  /\ Range(module_candidates(args.requirement)) = matched
            /\ Range(Value(ret)) \subseteq matched
            /\ Cardinality(matched) <= 6 => Range(Value(ret)) = matched

\* a call on a text that names a keyword of the api category and nothing of
\* another category
C8_Witness ==
    /\ args.op = "identify_modules"
    /\ ret # None
    /\ args.requirement = "new REST api_v2 rest"
    /\ Range(Value(ret)) = Range(common_modules[3][2])

(***************************************************************************)
(* C9: the pseudocode is this assembly of the modules and entities passed  *)
(* in, whatever the text: header; authentication block iff a module name   *)
(* contains "auth"; data block iff one contains "data"; the business-logic *)
(* line and a PROCESS/STORE pair for each of the first min(3, len)         *)
(* entities; notification block iff a module name contains "notification"; *)
(* API-response block iff one contains "api"; END.  No block stands twice. *)
(***************************************************************************)
ProcessStoreLines(entities) ==
    LET n == IF Len(entities) < 3 THEN Len(entities) ELSE 3
    IN  [k \in 1..(2 * n) |->
            IF k % 2 = 1
            THEN "    PROCESS " \o entities[(k + 1) \div 2] \o "_operations"
            ELSE "    STORE " \o entities[k \div 2] \o "_data IN database"]

Assembly(modules, entities) ==
    HeaderLines
        \o (IF SomeNameHas(modules, "auth") THEN AuthenticationBlock ELSE <<>>)
        \o (IF SomeNameHas(modules, "data") THEN DataBlock ELSE <<>>)
        \o <<"    // Main Business Logic">>
        \o ProcessStoreLines(entities)
        \o <<"">>
        \o (IF SomeNameHas(modules, "notification") THEN NotificationBlock ELSE <<>>)
        \o (IF SomeNameHas(modules, "api") THEN ApiBlock ELSE <<>>)
        \o <<"  END">>

C9_PseudocodeAssembly ==
    (args.op = "generate_pseudocode" /\ ret # None) =>
        LET lines == Lines(Value(ret))
        IN  /\ lines = Assembly(args.modules, args.entities)
            /\ \A block \in {AuthenticationBlock, DataBlock, NotificationBlock, ApiBlock} :
                   Cardinality(BlockPlaces(lines, block)) <= 1

\* a call whose text names every block, with modules that name none and
\* more than 3 entities
C9_Witness ==
    /\ args.op = "generate_pseudocode"
    /\ ret # None
    /\ args.requirement = "notification api auth data"
    /\ args.modules = <<"billing">>
    /\ Len(args.entities) = 4

(***************************************************************************)
(* C10: every entity extract_entities returns is lower-case and is a known *)
(* entity that is a substring of the lower-cased text, or the lower-cased  *)
(* form of an alphabetic token of more than 3 letters that is no stop      *)
(* word; when there are at most 8 such candidates, all are returned.       *)
(***************************************************************************)
\* the alphabetic tokens: the runs of letters with no word character before
\* or after them
AlphaTokens(text) ==
    LET n == Len(text)
        starts == {i \in 1..n :
                       /\ IsAlpha(CharAt(text, i))
                       /\ i = 1 \/ ~IsWordChar(CharAt(text, i - 1))}
        ends == {j \in 1..n :
                     /\ IsAlpha(CharAt(text, j))
                     /\ j = n \/ ~IsWordChar(CharAt(text, j + 1))}
    IN  {SubSeq(text, run[1], run[2]) :
             run \in {r \in starts \X ends :
                          /\ r[1] <= r[2]
                          /\ \A k \in r[1]..r[2] : IsAlpha(CharAt(text, k))}}

EntityCandidates(text) ==
    {entity \in Range(common_entities) : Contains(lower(text), entity)}
        \cup {lower(token) : token \in {t \in AlphaTokens(text) :
                                            /\ Len(t) > 3
                                            /\ lower(t) \notin Range(stop_words)}}

IsLowerCase(word) == \A i \in 1..Len(word) : CharAt(word, i) \notin ascii_uppercase

C10_EntitiesAreCandidates ==
    (args.op = "extract_entities" /\ ret # None) =>
        LET candidates == EntityCandidates(args.requirement)
        IN  /\ Range(Value(ret)) \subseteq candidates
            /\ \A entity \in Range(Value(ret)) : IsLowerCase(entity)
            /\ Cardinality(candidates) <= 8 => Range(Value(ret)) = candidates

\* a call on a text with upper-case letters, a stop word, short words and
\* exactly 8 candidates, all returned
C10_Witness ==
    /\ args.op = "extract_entities"
    /\ ret # None
    /\ args.requirement = "Develop a task management system with notifications and reporting"
    /\ Len(Value(ret)) = 8
====
